---- MODULE Spec2Model ----
(***************************************************************************)
(* Session / presence state machine and signaling relay of the chat        *)
(* server (src/unnamed/part_000).  Every socket.io event handler is one    *)
(* action; a handler runs to completion before the next event is handled.  *)
(*                                                                         *)
(* src/server.js is an earlier revision of the same handlers (no stored    *)
(* userCount, no acknowledgment, no cleanupUser); it is not modelled.      *)
(*                                                                         *)
(* Abstractions: timestamps (new Date()) are left out of sessions and      *)
(* messages; template strings are tuples of their parts; a falsy JS value  *)
(* (undefined, null, '') is the empty string.                              *)
(***************************************************************************)
EXTENDS Integers, Sequences, FiniteSets, TLC

\* ------------------------------------------------------------------ bounds
\* Number of client events (everything but the transport-level connect)
\* handled in one behaviour.
MaxEvents == 4

\* ------------------------------------------------------------- input sets
\* Socket ids the transport hands out.
Conns == {"s1", "s2"}
\* An id no socket ever has (a target that is not connected).
Ghost == "s0"
\* Keys of state.rooms (and of state.roomInfo).
CatalogRooms == {"general", "gaming", "random"}
\* state.roomInfo: the display data of the catalog rooms.
RoomInfo ==
    [r \in CatalogRooms |->
        CASE r = "general" -> [name |-> "General",
                               description |-> "General discussions",
                               icon |-> "fa-hashtag"]
          [] r = "gaming"  -> [name |-> "Gaming",
                               description |-> "All about games",
                               icon |-> "fa-gamepad"]
          [] OTHER         -> [name |-> "Random",
                               description |-> "Anything goes",
                               icon |-> "fa-random"]]
\* Property names every plain JS object inherits from Object.prototype:
\* obj[k] is truthy for them although k is not an own key of obj.
InheritedKeys ==
    {"constructor", "__defineGetter__", "__defineSetter__", "hasOwnProperty",
     "__lookupGetter__", "__lookupSetter__", "isPrototypeOf",
     "propertyIsEnumerable", "toString", "valueOf", "__proto__",
     "toLocaleString"}
\* The display name and avatarColor each client sends in join ("" stands for
\* every falsy value: undefined, null, '').
JoinName == [c \in Conns |-> IF c = "s1" THEN "alice" ELSE "bob"]
JoinColor == [c \in Conns |-> IF c = "s1" THEN "" ELSE "#ff0000"]
JoinNameInputs(c) == {JoinName[c], ""}
\* New names a client sends in changeUsername.
RenameInputs == {"carol", ""}
\* Room names a client sends in join.
RoomInputs == {"general", "gaming", "constructor", "toString", "lobby", ""}
\* Room names a client sends in joinVoiceChat / joinVideoChat.
CallRoomInputs == {"general", "gaming"}
DefaultColor == "#4361ee"
Statuses == {"online", "away", "offline"}
StatusInputs == {"away", "busy"}
MessageInputs == {"", "hi"}
\* <<isMuted, isDeafened>> a client sends in voiceStateChange.
VoiceStateInputs == {<< TRUE, FALSE >>}
\* Targets of the signaling events.
TargetInputs == Conns \cup {Ghost, "constructor", "toString"}
\* The opaque negotiation payload each client sends.
Payload == [c \in Conns |-> IF c = "s1" THEN "sdp1" ELSE "sdp2"]

VARIABLES
    users,              \* state.users: socket id -> session object
    rooms,              \* state.rooms: room id -> [users (keys in insertion order), userCount]
    voiceParticipants,  \* state.voiceParticipants: records in key insertion order
    videoParticipants,  \* state.videoParticipants: records in key insertion order
    socketRooms,        \* socket.io adapter: socket id -> rooms the socket is in
    conn,               \* transport state of each socket: "idle", "open", "closed"
    out,                \* emit calls of the event being handled, in order
    acks,               \* acknowledgment callbacks invoked by that event
    last,               \* the event being handled: [op, id, arg]; op "idle" between events
    events              \* number of client events handled so far

vars == << users, rooms, voiceParticipants, videoParticipants, socketRooms,
           conn, out, acks, last, events >>

\* ------------------------------------------------------- JS object helpers
\* obj[k] of a plain object whose own keys are KeySet, read for truthiness.
Truthy(KeySet, k) == k \in KeySet \/ k \in InheritedKeys

\* An object kept as the sequence of its values in key insertion order; the
\* key of a value is its id field.
Keys(o) == {o[i].id : i \in DOMAIN o}
Get(o, k) == o[CHOOSE i \in DOMAIN o : o[i].id = k]
\* o[k] = v: an existing key keeps its position, a new key goes last.
Put(o, k, v) ==
    IF k \in Keys(o)
    THEN [i \in DOMAIN o |-> IF o[i].id = k THEN v ELSE o[i]]
    ELSE Append(o, v)
\* delete o[k]
Del(o, k) == SelectSeq(o, LAMBDA p : p.id # k)

\* The same for an object whose values are references, kept as its key list.
KeySetOf(ks) == {ks[i] : i \in DOMAIN ks}
KeyPut(ks, k) == IF k \in KeySetOf(ks) THEN ks ELSE Append(ks, k)
\* The key is not deleted.
KeyDelKept(ks, k) == ks
KeyDel(ks, k) == SelectSeq(ks, LAMBDA x : x # k)

\* delete f[k] for an object kept as a function.
Without(f, k) == [x \in DOMAIN f \ {k} |-> f[x]]
\* f[k] = v
With(f, k, v) == [x \in DOMAIN f \cup {k} |-> IF x = k THEN v ELSE f[x]]

\* --------------------------------------------------------------- emitting
\* io.to(addr): the sockets that are in socket.io room addr.
InRoom(sock, addr) == {c \in Conns : addr \in sock[c]}

\* An emit call: event name, the room it is addressed to, the sockets it is
\* delivered to, and its argument.
Emit(s, ev, addr, except, data) ==
    [s EXCEPT !.out = Append(@, [ev |-> ev, addr |-> addr,
                                 to |-> InRoom(s.sock, addr) \ except,
                                 data |-> data])]

\* The handler's view of the state before it runs.
Cur ==
    [users |-> users, rooms |-> rooms, voice |-> voiceParticipants,
     video |-> videoParticipants, sock |-> socketRooms,
     out |-> << >>, acks |-> << >>, threw |-> FALSE]

Commit(s) ==
    /\ users' = s.users
    /\ rooms' = s.rooms
    /\ voiceParticipants' = s.voice
    /\ videoParticipants' = s.video
    /\ socketRooms' = s.sock
    /\ out' = s.out
    /\ acks' = s.acks

Handled(op, c, arg) ==
    /\ last' = [op |-> op, id |-> c, arg |-> arg]
    /\ events' = events + 1

Idle == [op |-> "idle", id |-> "", arg |-> [none |-> TRUE]]

\* Handlers run one at a time: the next event of any socket is dispatched only
\* after the previous handler has returned.
CanHandle(c) == conn[c] = "open" /\ last.op = "idle" /\ events < MaxEvents

\* ---------------------------------------------------------------- helpers
\* The count is not recomputed.
updateRoomUserCountStale(s, roomId) == s

updateRoomUserCount(s, roomId) ==
    [s EXCEPT !.rooms[roomId].userCount = Len(s.rooms[roomId].users)]

\* The users of the room are the session objects themselves (the room map and
\* state.users hold the same object), so they are read through s.users.
UserList(s, roomId) ==
    [i \in DOMAIN s.rooms[roomId].users |->
        LET u == s.users[s.rooms[roomId].users[i]]
        IN  [username |-> u.username, status |-> u.status,
             avatarColor |-> u.avatarColor]]

broadcastUserList(s, roomId) ==
    Emit(s, "updateUsers", roomId, {},
         [users |-> UserList(s, roomId),
          count |-> s.rooms[roomId].userCount,
          room |-> roomId])

\* The video record of the socket is announced as left but kept.
cleanupUserKeepsVideo(s, socketId) ==
    IF socketId \notin DOMAIN s.users THEN s
    ELSE
    LET user == s.users[socketId] IN
    IF Truthy(CatalogRooms, user.room) /\ user.room \notin CatalogRooms
    THEN [s EXCEPT !.threw = TRUE]
    ELSE
    LET s1 == IF Truthy(CatalogRooms, user.room)
              THEN broadcastUserList(
                     updateRoomUserCount(
                       [s EXCEPT !.rooms[user.room].users = KeyDel(@, socketId)],
                       user.room),
                     user.room)
              ELSE s
        s2 == IF socketId \in Keys(s1.voice)
              THEN Emit([s1 EXCEPT !.voice = Del(@, socketId)],
                        "voiceUserLeft", Get(s1.voice, socketId).room, {},
                        [id |-> socketId])
              ELSE s1
        s3 == IF socketId \in Keys(s2.video)
              THEN Emit(s2, "videoUserLeft", Get(s2.video, socketId).room, {},
                        [id |-> socketId])
              ELSE s2
    IN  [s3 EXCEPT !.users = Without(@, socketId)]

\* state.rooms[user.room] is truthy for an inherited key, but it has no users
\* map: `delete undefined[socketId]` throws before anything is changed.
cleanupUser(s, socketId) ==
    IF socketId \notin DOMAIN s.users THEN s
    ELSE
    LET user == s.users[socketId] IN
    IF Truthy(CatalogRooms, user.room) /\ user.room \notin CatalogRooms
    THEN [s EXCEPT !.threw = TRUE]
    ELSE
    LET s1 == IF Truthy(CatalogRooms, user.room)
              THEN broadcastUserList(
                     updateRoomUserCount(
                       [s EXCEPT !.rooms[user.room].users = KeyDel(@, socketId)],
                       user.room),
                     user.room)
              ELSE s
        s2 == IF socketId \in Keys(s1.voice)
              THEN Emit([s1 EXCEPT !.voice = Del(@, socketId)],
                        "voiceUserLeft", Get(s1.voice, socketId).room, {},
                        [id |-> socketId])
              ELSE s1
        s3 == IF socketId \in Keys(s2.video)
              THEN Emit([s2 EXCEPT !.video = Del(@, socketId)],
                        "videoUserLeft", Get(s2.video, socketId).room, {},
                        [id |-> socketId])
              ELSE s2
    IN  [s3 EXCEPT !.users = Without(@, socketId)]

\* ------------------------------------------------------------ connection
\* io.on('connection'): the socket is in the room named by its own id.
Connect(c) ==
    /\ conn[c] = "idle"
    /\ last.op = "idle"
    /\ conn' = [conn EXCEPT ![c] = "open"]
    /\ socketRooms' = [socketRooms EXCEPT ![c] = {c}]
    /\ out' = << >>
    /\ acks' = << >>
    /\ last' = [op |-> "connection", id |-> c, arg |-> [none |-> TRUE]]
    /\ UNCHANGED << users, rooms, voiceParticipants, videoParticipants, events >>

\* ------------------------------------------------------------------- join
JoinFail(s, cb, msg) ==
    IF cb THEN [s EXCEPT !.acks = Append(@, [success |-> FALSE, error |-> msg])]
    ELSE s

JoinBody(s, c, username, room, avatarColor, cb) ==
    IF username = "" \/ room = "" \/ ~Truthy(CatalogRooms, room)
    THEN JoinFail(s, cb, "Invalid join data")
    ELSE
    LET s1 == IF c \in DOMAIN s.users THEN cleanupUser(s, c) ELSE s IN
    IF s1.threw THEN JoinFail(s1, cb, "TypeError")
    ELSE
    LET session == [id |-> c, username |-> username, room |-> room,
                    avatarColor |-> IF avatarColor = "" THEN DefaultColor
                                    ELSE avatarColor,
                    status |-> "online"]
        s2 == [s1 EXCEPT !.users = With(@, c, session)]
    IN
    \* state.rooms[room].users is undefined for an inherited key
    IF room \notin CatalogRooms THEN JoinFail(s2, cb, "TypeError")
    ELSE
    LET s3 == updateRoomUserCount(
                [s2 EXCEPT !.rooms[room].users = KeyPut(@, c)], room)
        s4 == [s3 EXCEPT !.sock[c] = @ \cup {room}]
        s5 == Emit(s4, "message", room, {},
                   [user |-> "System",
                    text |-> << username, " has joined ", room >>,
                    isSystem |-> TRUE])
        s6 == broadcastUserList(s5, room)
    IN  IF cb
        THEN [s6 EXCEPT !.acks = Append(@,
                [success |-> TRUE,
                 room |-> [info |-> RoomInfo[room],
                           userCount |-> s5.rooms[room].userCount],
                 user |-> s6.users[c]])]
        ELSE s6

Join(c, username, room, avatarColor, cb) ==
    /\ CanHandle(c)
    /\ Commit(JoinBody(Cur, c, username, room, avatarColor, cb))
    /\ Handled("join", c, [username |-> username, room |-> room,
                           avatarColor |-> avatarColor, cb |-> cb])
    /\ UNCHANGED conn

\* ------------------------------------------------------------ sendMessage
\* The client sends {message}; isImage and isAction are not sent.
\* An empty message is not dropped.
SendMessageBodyAny(s, c, message) ==
    IF c \notin DOMAIN s.users THEN s
    ELSE
    LET user == s.users[c] IN
    Emit(s, "message", user.room, {},
         [user |-> user.username, text |-> message, isImage |-> FALSE,
          isSystem |-> FALSE, isAction |-> FALSE,
          avatarColor |-> user.avatarColor])

SendMessageBody(s, c, message) ==
    IF c \notin DOMAIN s.users \/ message = "" THEN s
    ELSE
    LET user == s.users[c] IN
    Emit(s, "message", user.room, {},
         [user |-> user.username, text |-> message, isImage |-> FALSE,
          isSystem |-> FALSE, isAction |-> FALSE,
          avatarColor |-> user.avatarColor])

SendMessage(c, message) ==
    /\ CanHandle(c)
    /\ Commit(SendMessageBody(Cur, c, message))
    /\ Handled("sendMessage", c, [message |-> message])
    /\ UNCHANGED conn

\* ------------------------------------------------------------- voice chat
\* The participant list is not filtered by room.
JoinVoiceChatBodyAllRooms(s, c, room) ==
    IF c \notin DOMAIN s.users THEN s
    ELSE
    LET user == s.users[c]
        rec == [id |-> c, username |-> user.username, room |-> room,
                isMuted |-> FALSE, isDeafened |-> FALSE,
                avatarColor |-> user.avatarColor]
        s1 == [s EXCEPT !.voice = Put(@, c, rec)]
        s2 == Emit(s1, "voiceUserJoined", room, {c}, rec)
        participants == SelectSeq(s2.voice, LAMBDA p : p.id # c)
    IN  Emit(s2, "voiceChatUsers", c, {}, [list |-> participants])

JoinVoiceChatBody(s, c, room) ==
    IF c \notin DOMAIN s.users THEN s
    ELSE
    LET user == s.users[c]
        rec == [id |-> c, username |-> user.username, room |-> room,
                isMuted |-> FALSE, isDeafened |-> FALSE,
                avatarColor |-> user.avatarColor]
        s1 == [s EXCEPT !.voice = Put(@, c, rec)]
        s2 == Emit(s1, "voiceUserJoined", room, {c}, rec)
        participants == SelectSeq(s2.voice,
                                  LAMBDA p : p.room = room /\ p.id # c)
    IN  Emit(s2, "voiceChatUsers", c, {}, [list |-> participants])

JoinVoiceChat(c, room) ==
    /\ CanHandle(c)
    /\ Commit(JoinVoiceChatBody(Cur, c, room))
    /\ Handled("joinVoiceChat", c, [room |-> room])
    /\ UNCHANGED conn

\* Leaving the voice chat also drops the sender's video record.
LeaveVoiceChatBodyBoth(s, c) ==
    IF c \notin Keys(s.voice) THEN s
    ELSE
    LET room == Get(s.voice, c).room IN
    Emit([s EXCEPT !.voice = Del(@, c), !.video = Del(@, c)],
         "voiceUserLeft", room, {c}, [id |-> c])

LeaveVoiceChatBody(s, c) ==
    IF c \notin Keys(s.voice) THEN s
    ELSE
    LET room == Get(s.voice, c).room IN
    Emit([s EXCEPT !.voice = Del(@, c)], "voiceUserLeft", room, {c},
         [id |-> c])

LeaveVoiceChat(c) ==
    /\ CanHandle(c)
    /\ Commit(LeaveVoiceChatBody(Cur, c))
    /\ Handled("leaveVoiceChat", c, [none |-> TRUE])
    /\ UNCHANGED conn

\* The event is forwarded without looking the target up.
RelayUnchecked(s, registry, ev, c, target, data) ==
    Emit(s, ev, target, {}, data)

\* registry[target] is read for truthiness only; the event goes to the
\* socket.io room named target.
Relay(s, registry, ev, c, target, data) ==
    IF Truthy(Keys(registry), target)
    THEN Emit(s, ev, target, {}, data)
    ELSE s

VoiceOffer(c, target, offer) ==
    /\ CanHandle(c)
    /\ Commit(Relay(Cur, voiceParticipants, "voiceOffer", c, target,
                    [from |-> c, offer |-> offer]))
    /\ Handled("voiceOffer", c, [target |-> target, payload |-> offer])
    /\ UNCHANGED conn

VoiceAnswer(c, target, answer) ==
    /\ CanHandle(c)
    /\ Commit(Relay(Cur, voiceParticipants, "voiceAnswer", c, target,
                    [from |-> c, answer |-> answer]))
    /\ Handled("voiceAnswer", c, [target |-> target, payload |-> answer])
    /\ UNCHANGED conn

VoiceIceCandidate(c, target, candidate) ==
    /\ CanHandle(c)
    /\ Commit(Relay(Cur, voiceParticipants, "voiceIceCandidate", c, target,
                    [from |-> c, candidate |-> candidate]))
    /\ Handled("voiceIceCandidate", c,
               [target |-> target, payload |-> candidate])
    /\ UNCHANGED conn

VoiceStateChangeBody(s, c, isMuted, isDeafened) ==
    IF c \notin Keys(s.voice) THEN s
    ELSE
    LET rec == [Get(s.voice, c) EXCEPT !.isMuted = isMuted,
                                       !.isDeafened = isDeafened]
    IN  Emit([s EXCEPT !.voice = Put(@, c, rec)], "voiceStateChanged",
             rec.room, {c},
             [userId |-> c, isMuted |-> isMuted, isDeafened |-> isDeafened])

VoiceStateChange(c, isMuted, isDeafened) ==
    /\ CanHandle(c)
    /\ Commit(VoiceStateChangeBody(Cur, c, isMuted, isDeafened))
    /\ Handled("voiceStateChange", c,
               [isMuted |-> isMuted, isDeafened |-> isDeafened])
    /\ UNCHANGED conn

\* ------------------------------------------------------------- video chat
\* The session is not required: a socket without one gets a record with no
\* name and no color.
JoinVideoChatBodyAnyone(s, c, room) ==
    LET rec == [id |-> c,
                username |-> IF c \in DOMAIN s.users
                             THEN s.users[c].username ELSE "",
                room |-> room,
                avatarColor |-> IF c \in DOMAIN s.users
                                THEN s.users[c].avatarColor ELSE ""]
        s1 == [s EXCEPT !.video = Put(@, c, rec)]
        s2 == Emit(s1, "videoUserJoined", room, {c}, rec)
        participants == SelectSeq(s2.video,
                                  LAMBDA p : p.room = room /\ p.id # c)
    IN  Emit(s2, "videoChatUsers", c, {}, [list |-> participants])

JoinVideoChatBody(s, c, room) ==
    IF c \notin DOMAIN s.users THEN s
    ELSE
    LET user == s.users[c]
        rec == [id |-> c, username |-> user.username, room |-> room,
                avatarColor |-> user.avatarColor]
        s1 == [s EXCEPT !.video = Put(@, c, rec)]
        s2 == Emit(s1, "videoUserJoined", room, {c}, rec)
        participants == SelectSeq(s2.video,
                                  LAMBDA p : p.room = room /\ p.id # c)
    IN  Emit(s2, "videoChatUsers", c, {}, [list |-> participants])

JoinVideoChat(c, room) ==
    /\ CanHandle(c)
    /\ Commit(JoinVideoChatBody(Cur, c, room))
    /\ Handled("joinVideoChat", c, [room |-> room])
    /\ UNCHANGED conn

LeaveVideoChatBody(s, c) ==
    IF c \notin Keys(s.video) THEN s
    ELSE
    LET room == Get(s.video, c).room IN
    Emit([s EXCEPT !.video = Del(@, c)], "videoUserLeft", room, {c},
         [id |-> c])

LeaveVideoChat(c) ==
    /\ CanHandle(c)
    /\ Commit(LeaveVideoChatBody(Cur, c))
    /\ Handled("leaveVideoChat", c, [none |-> TRUE])
    /\ UNCHANGED conn

\* The offer is forwarded only when the sender holds a video record too.
VideoOfferFromCall(c, target, offer) ==
    /\ CanHandle(c)
    /\ Commit(IF c \in Keys(videoParticipants)
              THEN Relay(Cur, videoParticipants, "videoOffer", c, target,
                         [from |-> c, offer |-> offer])
              ELSE Cur)
    /\ Handled("videoOffer", c, [target |-> target, payload |-> offer])
    /\ UNCHANGED conn

VideoOffer(c, target, offer) ==
    /\ CanHandle(c)
    /\ Commit(Relay(Cur, videoParticipants, "videoOffer", c, target,
                    [from |-> c, offer |-> offer]))
    /\ Handled("videoOffer", c, [target |-> target, payload |-> offer])
    /\ UNCHANGED conn

VideoAnswer(c, target, answer) ==
    /\ CanHandle(c)
    /\ Commit(Relay(Cur, videoParticipants, "videoAnswer", c, target,
                    [from |-> c, answer |-> answer]))
    /\ Handled("videoAnswer", c, [target |-> target, payload |-> answer])
    /\ UNCHANGED conn

VideoIceCandidate(c, target, candidate) ==
    /\ CanHandle(c)
    /\ Commit(Relay(Cur, videoParticipants, "videoIceCandidate", c, target,
                    [from |-> c, candidate |-> candidate]))
    /\ Handled("videoIceCandidate", c,
               [target |-> target, payload |-> candidate])
    /\ UNCHANGED conn

\* --------------------------------------------------------- changeUsername
\* user.username is set first; the write through state.rooms[user.room].users
\* throws when user.room is an inherited key, and is otherwise a write to the
\* same session object.
ChangeUsernameBody(s, c, newUsername) ==
    IF c \notin DOMAIN s.users THEN s
    ELSE
    LET oldUsername == s.users[c].username
        room == s.users[c].room
        s1 == [s EXCEPT !.users[c].username = newUsername]
    IN
    IF Truthy(CatalogRooms, room) /\ room \notin CatalogRooms
    THEN [s1 EXCEPT !.threw = TRUE]
    ELSE
    LET s2 == IF c \in Keys(s1.voice)
              THEN Emit([s1 EXCEPT !.voice =
                            Put(@, c, [Get(s1.voice, c) EXCEPT
                                          !.username = newUsername])],
                        "voiceUserUpdated", Get(s1.voice, c).room, {c},
                        [id |-> c, username |-> newUsername])
              ELSE s1
        s3 == IF c \in Keys(s2.video)
              THEN Emit([s2 EXCEPT !.video =
                            Put(@, c, [Get(s2.video, c) EXCEPT
                                          !.username = newUsername])],
                        "videoUserUpdated", Get(s2.video, c).room, {c},
                        [id |-> c, username |-> newUsername])
              ELSE s2
        s4 == Emit(s3, "userChangedUsername", room, {},
                   [oldUsername |-> oldUsername, newUsername |-> newUsername])
    IN  broadcastUserList(s4, room)

ChangeUsername(c, newUsername) ==
    /\ CanHandle(c)
    /\ Commit(ChangeUsernameBody(Cur, c, newUsername))
    /\ Handled("changeUsername", c, [newUsername |-> newUsername])
    /\ UNCHANGED conn

\* -------------------------------------------------------------- setStatus
\* The user list is sent before the status is stored.
SetStatusBodyEarly(s, c, status) ==
    IF c \notin DOMAIN s.users \/ status \notin Statuses THEN s
    ELSE
    LET room == s.users[c].room IN
    IF Truthy(CatalogRooms, room) /\ room \notin CatalogRooms
    THEN [s EXCEPT !.users[c].status = status, !.threw = TRUE]
    ELSE
    LET s1 == Emit(s, "userStatusChanged", room, {},
                   [username |-> s.users[c].username, status |-> status])
        s2 == broadcastUserList(s1, room)
    IN  [s2 EXCEPT !.users[c].status = status]

SetStatusBody(s, c, status) ==
    IF c \notin DOMAIN s.users \/ status \notin Statuses THEN s
    ELSE
    LET room == s.users[c].room
        s1 == [s EXCEPT !.users[c].status = status]
    IN
    IF Truthy(CatalogRooms, room) /\ room \notin CatalogRooms
    THEN [s1 EXCEPT !.threw = TRUE]
    ELSE
    LET s2 == Emit(s1, "userStatusChanged", room, {},
                   [username |-> s1.users[c].username, status |-> status])
    IN  broadcastUserList(s2, room)

SetStatus(c, status) ==
    /\ CanHandle(c)
    /\ Commit(SetStatusBody(Cur, c, status))
    /\ Handled("setStatus", c, [status |-> status])
    /\ UNCHANGED conn

\* ----------------------------------------------------------------- typing
TypingBody(s, c) ==
    IF c \in DOMAIN s.users
    THEN Emit(s, "typing", s.users[c].room, {c},
              [username |-> s.users[c].username, room |-> s.users[c].room])
    ELSE s

Typing(c) ==
    /\ CanHandle(c)
    /\ Commit(TypingBody(Cur, c))
    /\ Handled("typing", c, [none |-> TRUE])
    /\ UNCHANGED conn

StopTypingBody(s, c) ==
    IF c \in DOMAIN s.users
    THEN Emit(s, "stopTyping", s.users[c].room, {c},
              [username |-> s.users[c].username])
    ELSE s

StopTyping(c) ==
    /\ CanHandle(c)
    /\ Commit(StopTypingBody(Cur, c))
    /\ Handled("stopTyping", c, [none |-> TRUE])
    /\ UNCHANGED conn

\* ------------------------------------------------------------- disconnect
DisconnectBody(s, c) ==
    IF c \notin DOMAIN s.users THEN s
    ELSE
    LET user == s.users[c]
        s1 == Emit(s, "message", user.room, {},
                   [user |-> "System",
                    text |-> << user.username, " has left" >>,
                    isSystem |-> TRUE])
        s2 == Emit(s1, "userStatusChanged", user.room, {},
                   [username |-> user.username, status |-> "offline"])
    IN  cleanupUser(s2, c)

\* The transport takes the socket out of all its rooms (its own included)
\* before the 'disconnect' event is dispatched.
Disconnect(c) ==
    /\ CanHandle(c)
    /\ conn' = [conn EXCEPT ![c] = "closed"]
    /\ Commit(DisconnectBody([Cur EXCEPT !.sock[c] = {}], c))
    /\ Handled("disconnect", c, [none |-> TRUE])

\* The handler returns: its emits have gone to the transport and the
\* dispatcher waits for the next event.
Return ==
    /\ last.op # "idle"
    /\ last' = Idle
    /\ out' = << >>
    /\ acks' = << >>
    /\ UNCHANGED << users, rooms, voiceParticipants, videoParticipants,
                    socketRooms, conn, events >>

\* ------------------------------------------------------------------ state
Init ==
    /\ users = << >>
    /\ rooms = [r \in CatalogRooms |-> [users |-> << >>, userCount |-> 0]]
    /\ voiceParticipants = << >>
    /\ videoParticipants = << >>
    /\ socketRooms = [c \in Conns |-> {}]
    /\ conn = [c \in Conns |-> "idle"]
    /\ out = << >>
    /\ acks = << >>
    /\ last = Idle
    /\ events = 0

Next ==
    \/ \E c \in Conns : Connect(c)
    \/ \E c \in Conns : \E u \in JoinNameInputs(c), r \in RoomInputs,
          cb \in BOOLEAN : Join(c, u, r, JoinColor[c], cb)
    \/ \E c \in Conns, m \in MessageInputs : SendMessage(c, m)
    \/ \E c \in Conns, r \in CallRoomInputs : JoinVoiceChat(c, r)
    \/ \E c \in Conns : LeaveVoiceChat(c)
    \/ \E c \in Conns, t \in TargetInputs : VoiceOffer(c, t, Payload[c])
    \/ \E c \in Conns, t \in TargetInputs : VoiceAnswer(c, t, Payload[c])
    \/ \E c \in Conns, t \in TargetInputs : VoiceIceCandidate(c, t, Payload[c])
    \/ \E c \in Conns, f \in VoiceStateInputs : VoiceStateChange(c, f[1], f[2])
    \/ \E c \in Conns, r \in CallRoomInputs : JoinVideoChat(c, r)
    \/ \E c \in Conns : LeaveVideoChat(c)
    \/ \E c \in Conns, t \in TargetInputs : VideoOffer(c, t, Payload[c])
    \/ \E c \in Conns, t \in TargetInputs : VideoAnswer(c, t, Payload[c])
    \/ \E c \in Conns, t \in TargetInputs : VideoIceCandidate(c, t, Payload[c])
    \/ \E c \in Conns, u \in RenameInputs : ChangeUsername(c, u)
    \/ \E c \in Conns, st \in StatusInputs : SetStatus(c, st)
    \/ \E c \in Conns : Typing(c)
    \/ \E c \in Conns : StopTyping(c)
    \/ \E c \in Conns : Disconnect(c)
    \/ Return

Spec == Init /\ [][Next]_vars

\* ================================================================= claims
\* Vocabulary of the properties below.
HandlerStep(op) == last.op = "idle" /\ last'.op = op
Registries == << users, rooms, voiceParticipants, videoParticipants >>
Members(r) == KeySetOf(rooms[r].users)
EmitsOf(o, ev) == {i \in DOMAIN o : o[i].ev = ev}
\* The emits of o that are the last updateUsers of their room: no membership
\* change of that room follows them in the handler.
FinalSnapshots(o) ==
    {i \in EmitsOf(o, "updateUsers") :
        \A j \in EmitsOf(o, "updateUsers") :
           o[j].data.room = o[i].data.room => j <= i}
\* The snapshot entries of the sessions us[k], k in the key list ks.
SnapshotOf(us, ks) ==
    [i \in DOMAIN ks |-> [username |-> us[ks[i]].username,
                          status |-> us[ks[i]].status,
                          avatarColor |-> us[ks[i]].avatarColor]]
HasLeftText(o, i) ==
    /\ o[i].ev = "message"
    /\ o[i].data.isSystem
    /\ Len(o[i].data.text) = 2
    /\ o[i].data.text[2] = " has left"
SignalOps == {"voiceOffer", "voiceAnswer", "voiceIceCandidate",
              "videoOffer", "videoAnswer", "videoIceCandidate"}
VoiceSignalOps == {"voiceOffer", "voiceAnswer", "voiceIceCandidate"}
\* The argument a relayed event carries: {from, offer | answer | candidate}.
SignalData(op, from, payload) ==
    CASE op \in {"voiceOffer", "videoOffer"} ->
            [from |-> from, offer |-> payload]
      [] op \in {"voiceAnswer", "videoAnswer"} ->
            [from |-> from, answer |-> payload]
      [] OTHER -> [from |-> from, candidate |-> payload]

\* C1: in every state each room's stored userCount is the number of socket
\* ids in the room's users map, and the count of every updateUsers emitted is
\* the number of members it lists (and, for the room's last snapshot of the
\* handler, the number of ids in the map).
C1_CountIsMembership ==
    /\ \A r \in CatalogRooms :
          rooms[r].userCount = Cardinality(Members(r))
    /\ \A i \in EmitsOf(out, "updateUsers") :
          out[i].data.count = Len(out[i].data.users)
    /\ \A i \in FinalSnapshots(out) :
          out[i].data.count = Cardinality(Members(out[i].data.room))

\* C1 witness: a member of a room with two members has disconnected and the
\* room was told the count 1.
C1_Witness ==
    /\ last.op = "disconnect"
    /\ \E i \in DOMAIN out :
          /\ out[i].ev = "updateUsers"
          /\ out[i].data.count = 1
          /\ Cardinality(Members(out[i].data.room)) = 1

\* C2: a socket with a session in room A that handles a valid join for another
\* room B is not in A's users map afterwards, and the handler emits exactly
\* one updateUsers to A, whose list is the remaining members of A.
C2_RoomChangeLeavesOldRoom ==
    [][\A c \in Conns :
          ( /\ HandlerStep("join")
            /\ last'.id = c
            /\ c \in DOMAIN users
            /\ users[c].room \in CatalogRooms
            /\ c \in Members(users[c].room)
            /\ last'.arg.username # ""
            /\ last'.arg.room \in CatalogRooms
            /\ last'.arg.room # users[c].room )
          => LET A == users[c].room
                 toA == {i \in EmitsOf(out', "updateUsers") : out'[i].addr = A}
             IN  /\ c \notin KeySetOf(rooms'[A].users)
                 /\ Cardinality(toA) = 1
                 /\ \A i \in toA :
                       /\ out'[i].data.room = A
                       /\ out'[i].data.users =
                             SnapshotOf(users,
                                        SelectSeq(rooms[A].users,
                                                  LAMBDA k : k # c))
                       /\ out'[i].data.count = Len(rooms[A].users) - 1
      ]_vars

\* C2 witness: a socket has moved to another room and the room it left, which
\* still has a member, got its updateUsers.
C2_Witness ==
    /\ last.op = "join"
    /\ last.id \in DOMAIN users
    /\ users[last.id].room = last.arg.room
    /\ \E i \in DOMAIN out :
          /\ out[i].ev = "updateUsers"
          /\ out[i].addr # last.arg.room
          /\ Len(out[i].data.users) = 1
          /\ last.id \notin Members(out[i].addr)

\* C3: when a socket holding a voice record and a video record disconnects,
\* both records are removed, voiceUserLeft and videoUserLeft for it are each
\* emitted exactly once, and both come before the '<name> has left' message.
C3_CallsLeftBeforeRoomLeft ==
    [][\A c \in Conns :
          ( /\ HandlerStep("disconnect")
            /\ last'.id = c
            /\ c \in Keys(voiceParticipants)
            /\ c \in Keys(videoParticipants) )
          => LET vl == {i \in EmitsOf(out', "voiceUserLeft") : out'[i].data.id = c}
                 dl == {i \in EmitsOf(out', "videoUserLeft") : out'[i].data.id = c}
                 ml == {i \in DOMAIN out' : HasLeftText(out', i)}
             IN  /\ c \notin Keys(voiceParticipants')
                 /\ c \notin Keys(videoParticipants')
                 /\ Cardinality(vl) = 1
                 /\ Cardinality(dl) = 1
                 /\ ml # {}
                 /\ \A i \in vl \cup dl : \A m \in ml : i < m
      ]_vars

\* C4: a signaling event whose target holds a call record of the event's call
\* type emits exactly one event of the same name, carrying {from, payload},
\* addressed to the target and delivered to no other socket; when the target
\* holds no record of that type nothing is delivered to anyone (nothing is
\* emitted at all when the target is not an inherited key); the registries
\* never change.
C4_RelayToTargetOnly ==
    [][\A op \in SignalOps :
          HandlerStep(op) =>
             LET t == last'.arg.target
                 registry == IF op \in VoiceSignalOps THEN voiceParticipants
                             ELSE videoParticipants
             IN  /\ UNCHANGED << Registries, socketRooms, conn >>
                 /\ acks' = << >>
                 /\ IF t \in Keys(registry)
                    THEN /\ Len(out') = 1
                         /\ out'[1].ev = op
                         /\ out'[1].addr = t
                         /\ out'[1].to \subseteq {t}
                         /\ out'[1].data =
                               SignalData(op, last'.id, last'.arg.payload)
                    ELSE /\ \A i \in DOMAIN out' : out'[i].to = {}
                         /\ t \notin InheritedKeys => out' = << >>
      ]_vars

\* C4 witness: a voice offer from a socket without a voice record has been
\* delivered to its target, another socket, which holds a voice record.
C4_Witness ==
    /\ last.op = "voiceOffer"
    /\ last.arg.target # last.id
    /\ last.arg.target \in Keys(voiceParticipants)
    /\ last.id \notin Keys(voiceParticipants)
    /\ Len(out) = 1
    /\ out[1].to = {last.arg.target}

\* C5: a join naming a room outside the catalog, or with an empty name,
\* changes nothing in the sessions, the rooms and the call registries, and
\* emits nothing.
C5_RejectedJoinChangesNothing ==
    [][( /\ HandlerStep("join")
         /\ \/ last'.arg.room \notin CatalogRooms
            \/ last'.arg.username = "" )
       => /\ UNCHANGED Registries
          /\ out' = << >>
      ]_vars

\* C6: joinVoiceChat or joinVideoChat from a socket without a session leaves
\* both call registries as they were and emits nothing.
C6_CallJoinNeedsSession ==
    [][( /\ \/ HandlerStep("joinVoiceChat")
            \/ HandlerStep("joinVideoChat")
         /\ last'.id \notin DOMAIN users )
       => /\ UNCHANGED << voiceParticipants, videoParticipants >>
          /\ out' = << >>
      ]_vars

\* C6 witness: a socket without a session has sent joinVideoChat while another
\* socket holds a session.
C6_Witness ==
    /\ last.op = "joinVideoChat"
    /\ last.id \notin DOMAIN users
    /\ DOMAIN users # {}
    /\ out = << >>

\* C7: changeUsername from a socket with a session, a voice record and a video
\* record sets the name in all three and emits exactly one voiceUserUpdated,
\* one videoUserUpdated and one userChangedUsername.
C7_RenameReachesCallRecords ==
    [][\A c \in Conns :
          ( /\ HandlerStep("changeUsername")
            /\ last'.id = c
            /\ c \in DOMAIN users
            /\ c \in Keys(voiceParticipants)
            /\ c \in Keys(videoParticipants) )
          => /\ c \in DOMAIN users'
             /\ users'[c].username = last'.arg.newUsername
             /\ c \in Keys(voiceParticipants')
             /\ Get(voiceParticipants', c).username = last'.arg.newUsername
             /\ c \in Keys(videoParticipants')
             /\ Get(videoParticipants', c).username = last'.arg.newUsername
             /\ Cardinality(EmitsOf(out', "voiceUserUpdated")) = 1
             /\ Cardinality(EmitsOf(out', "videoUserUpdated")) = 1
             /\ Cardinality(EmitsOf(out', "userChangedUsername")) = 1
      ]_vars

\* C8: a socket with a session is in the users map of exactly one room, the
\* catalog room its session names; a socket without a session is in none.
C8_OneRoomPerSession ==
    \A c \in Conns :
       IF c \in DOMAIN users
       THEN /\ users[c].room \in CatalogRooms
            /\ {r \in CatalogRooms : c \in Members(r)} = {users[c].room}
       ELSE {r \in CatalogRooms : c \in Members(r)} = {}

\* C9: the room of a call record just created by joinVoiceChat or
\* joinVideoChat is the room of the owner's session.
C9_CallRecordRoomIsSessionRoom ==
    /\ ( last.op = "joinVoiceChat" /\ last.id \in Keys(voiceParticipants)
         /\ last.id \in DOMAIN users )
       => Get(voiceParticipants, last.id).room = users[last.id].room
    /\ ( last.op = "joinVideoChat" /\ last.id \in Keys(videoParticipants)
         /\ last.id \in DOMAIN users )
       => Get(videoParticipants, last.id).room = users[last.id].room

\* C10: every updateUsers of room r is delivered to exactly the sockets that
\* are in r's users map when it is emitted (stated for the room's last
\* snapshot of the handler, after which the map does not change).
C10_SnapshotGoesToMembersOnly ==
    \A i \in FinalSnapshots(out) :
       out[i].to = Members(out[i].data.room)

\* A join payload that names a catalog room and a non-empty display name.
ValidJoin(arg) == arg.username # "" /\ arg.room \in CatalogRooms
HasJoinedText(o, i) ==
    /\ o[i].ev = "message"
    /\ o[i].data.isSystem
    /\ Len(o[i].data.text) = 3
    /\ o[i].data.text[2] = " has joined "

\* C11: when a socket that holds a session handles a valid join, its voice and
\* video records are removed, voiceUserLeft / videoUserLeft for it is emitted
\* to the room of each removed record before the join announcement of the new
\* session, and after the join it holds no call record.
C11_RejoinDropsCallRecords ==
    [][\A c \in Conns :
          ( /\ HandlerStep("join")
            /\ last'.id = c
            /\ c \in DOMAIN users
            /\ ValidJoin(last'.arg) )
          => LET joined == {i \in DOMAIN out' : HasJoinedText(out', i)}
             IN  /\ c \notin Keys(voiceParticipants')
                 /\ c \notin Keys(videoParticipants')
                 /\ joined # {}
                 /\ c \in Keys(voiceParticipants) =>
                       \E i \in EmitsOf(out', "voiceUserLeft") :
                          /\ out'[i].data.id = c
                          /\ out'[i].addr = Get(voiceParticipants, c).room
                          /\ \A j \in joined : i < j
                 /\ c \in Keys(videoParticipants) =>
                       \E i \in EmitsOf(out', "videoUserLeft") :
                          /\ out'[i].data.id = c
                          /\ out'[i].addr = Get(videoParticipants, c).room
                          /\ \A j \in joined : i < j
      ]_vars

\* C12: after a disconnect the socket has no session, is in no room's users
\* map and has no call record; if it had a session, that session's room was
\* sent a '<name> has left' message, an updateUsers that does not count it
\* and userStatusChanged offline; if it had none, nothing is emitted and
\* nothing changes.
C12_DisconnectTearsDown ==
    [][\A c \in Conns :
          ( HandlerStep("disconnect") /\ last'.id = c )
          => /\ c \notin DOMAIN users'
             /\ \A r \in CatalogRooms : c \notin KeySetOf(rooms'[r].users)
             /\ c \notin Keys(voiceParticipants')
             /\ c \notin Keys(videoParticipants')
             /\ IF c \in DOMAIN users
                THEN LET room == users[c].room IN
                     /\ \E i \in DOMAIN out' :
                           /\ HasLeftText(out', i)
                           /\ out'[i].addr = room
                           /\ out'[i].data.text[1] = users[c].username
                     /\ \E i \in EmitsOf(out', "updateUsers") :
                           /\ out'[i].addr = room
                           /\ room \in CatalogRooms
                           /\ out'[i].data.users =
                                 SnapshotOf(users,
                                            SelectSeq(rooms[room].users,
                                                      LAMBDA k : k # c))
                     /\ \E i \in EmitsOf(out', "userStatusChanged") :
                           /\ out'[i].addr = room
                           /\ out'[i].data =
                                 [username |-> users[c].username,
                                  status |-> "offline"]
                ELSE /\ out' = << >>
                     /\ UNCHANGED Registries
      ]_vars

\* The registries after the join (c, arg) is handled in the registries of s.
AfterJoin(s, c, arg) ==
    JoinBody([s EXCEPT !.out = << >>, !.acks = << >>, !.threw = FALSE],
             c, arg.username, arg.room, arg.avatarColor, arg.cb)
SameRegistries(a, b) ==
    /\ a.users = b.users
    /\ a.rooms = b.rooms
    /\ a.voice = b.voice
    /\ a.video = b.video
JoinPayloads(c) ==
    {[username |-> u, room |-> r, avatarColor |-> JoinColor[c], cb |-> cb] :
        u \in JoinNameInputs(c), r \in RoomInputs, cb \in BOOLEAN}

\* C13: handling the same valid join twice in a row leaves sessions, rooms and
\* call registries as handling it once does, and after it the session is new:
\* its status is online and the socket holds no call record.
C13_JoinIdempotent ==
    \A c \in Conns :
       conn[c] = "open" =>
          \A arg \in {a \in JoinPayloads(c) : ValidJoin(a)} :
             LET once == AfterJoin(Cur, c, arg)
                 twice == AfterJoin(once, c, arg)
             IN  /\ SameRegistries(once, twice)
                 /\ c \in DOMAIN once.users
                 /\ once.users[c].status = "online"
                 /\ once.users[c].username = arg.username
                 /\ once.users[c].room = arg.room
                 /\ c \notin Keys(once.voice)
                 /\ c \notin Keys(once.video)

PresenceOps == {"join", "disconnect", "changeUsername", "setStatus"}

\* C14: a join, disconnect, changeUsername or setStatus that changes a room's
\* users map, or the name or status of one of its members, emits an
\* updateUsers to that room, and the room's last updateUsers of the handler
\* lists exactly the room's members with their names and statuses as they
\* are when the handler returns.
C14_SnapshotFollowsMutation ==
    [][\A op \in PresenceOps :
          HandlerStep(op) =>
             \A r \in CatalogRooms :
                LET before == SnapshotOf(users, rooms[r].users)
                    after == SnapshotOf(users', rooms'[r].users)
                    finals == {i \in FinalSnapshots(out') :
                                  out'[i].data.room = r}
                IN  /\ ( rooms'[r].users # rooms[r].users \/ before # after )
                       => finals # {}
                    /\ \A i \in finals :
                          /\ out'[i].addr = r
                          /\ out'[i].data.users = after
                          /\ out'[i].data.count = Len(after)
      ]_vars

\* C14 witness: a member of a room with two members has set its status to
\* away and the room's updateUsers lists both, one of them away.
C14_Witness ==
    /\ last.op = "setStatus"
    /\ last.id \in DOMAIN users
    /\ users[last.id].status = "away"
    /\ \E i \in EmitsOf(out, "updateUsers") :
          /\ Len(out[i].data.users) = 2
          /\ \E k \in DOMAIN out[i].data.users :
                out[i].data.users[k].status = "away"
          /\ \E k \in DOMAIN out[i].data.users :
                out[i].data.users[k].status = "online"

VoiceCallOps == {"joinVoiceChat", "leaveVoiceChat", "voiceStateChange"}
VideoCallOps == {"joinVideoChat", "leaveVideoChat"}
\* The records of a registry that do not belong to socket c, in order.
OthersIn(registry, c) == SelectSeq(registry, LAMBDA p : p.id # c)

\* C15: joinVoiceChat, leaveVoiceChat and voiceStateChange leave the sessions,
\* the rooms and the video registry unchanged, joinVideoChat and
\* leaveVideoChat leave the sessions, the rooms and the voice registry
\* unchanged, and in its own registry each changes no record but the sender's.
C15_CallOpsFrame ==
    [][/\ \A op \in VoiceCallOps :
             HandlerStep(op) =>
                /\ UNCHANGED << users, rooms, videoParticipants >>
                /\ OthersIn(voiceParticipants', last'.id) =
                      OthersIn(voiceParticipants, last'.id)
       /\ \A op \in VideoCallOps :
             HandlerStep(op) =>
                /\ UNCHANGED << users, rooms, voiceParticipants >>
                /\ OthersIn(videoParticipants', last'.id) =
                      OthersIn(videoParticipants, last'.id)
      ]_vars

\* C15 witness: a socket holding a voice and a video record has left the voice
\* chat and still holds its video record.
C15_Witness ==
    /\ last.op = "leaveVoiceChat"
    /\ EmitsOf(out, "voiceUserLeft") # {}
    /\ last.id \notin Keys(voiceParticipants)
    /\ last.id \in Keys(videoParticipants)

\* What a successful call join of socket c for room r must have emitted, given
\* the registry after it and the names of its two events.
CallJoinEmits(registry, c, r, listEv, joinedEv) ==
    LET lists == EmitsOf(out, listEv)
        joins == EmitsOf(out, joinedEv)
        others == {registry[k] : k \in {k \in DOMAIN registry :
                                   registry[k].room = r /\ registry[k].id # c}}
    IN  /\ Cardinality(lists) = 1
        /\ \A i \in lists :
              /\ out[i].addr = c
              /\ out[i].to = {c}
              /\ {out[i].data.list[k] : k \in DOMAIN out[i].data.list} = others
              /\ Len(out[i].data.list) = Cardinality(others)
        /\ Cardinality(joins) = 1
        /\ \A i \in joins :
              /\ out[i].addr = r
              /\ out[i].to = InRoom(socketRooms, r) \ {c}
              /\ out[i].data.id = c
              /\ out[i].data.room = r

\* C16: a joinVoiceChat (joinVideoChat) for room r from a socket with a
\* session sends the caller one voiceChatUsers (videoChatUsers) whose list is
\* exactly the records of that registry with room r other than the caller's,
\* and emits one voiceUserJoined (videoUserJoined) to room r, not delivered to
\* the caller.
C16_CallJoinReplies ==
    /\ ( last.op = "joinVoiceChat" /\ last.id \in DOMAIN users )
       => CallJoinEmits(voiceParticipants, last.id, last.arg.room,
                        "voiceChatUsers", "voiceUserJoined")
    /\ ( last.op = "joinVideoChat" /\ last.id \in DOMAIN users )
       => CallJoinEmits(videoParticipants, last.id, last.arg.room,
                        "videoChatUsers", "videoUserJoined")

\* C16 witness: a socket has joined the voice chat of a room in which another
\* socket already is; it got that socket's record and the other socket got
\* voiceUserJoined.
C16_Witness ==
    /\ last.op = "joinVoiceChat"
    /\ \E i \in EmitsOf(out, "voiceChatUsers") :
          /\ Len(out[i].data.list) = 1
          /\ out[i].data.list[1].id # last.id
    /\ \E i \in EmitsOf(out, "voiceUserJoined") :
          out[i].to # {} /\ last.id \notin out[i].to

\* C17: a typing or stopTyping of socket c is delivered only to members of the
\* room of c's session, never to c; without a session it is delivered to no
\* one.
C17_TypingStaysInRoom ==
    last.op \in {"typing", "stopTyping"} =>
       LET c == last.id
           members == IF c \in DOMAIN users /\ users[c].room \in CatalogRooms
                      THEN Members(users[c].room)
                      ELSE {}
       IN  /\ c \notin DOMAIN users => out = << >>
           /\ \A i \in DOMAIN out :
                 /\ out[i].ev = last.op
                 /\ out[i].to \subseteq members \ {c}

\* C18: a setStatus with a status outside online, away, offline, or from a
\* socket without a session, changes nothing and emits nothing; otherwise the
\* session's status becomes the value sent and userStatusChanged and
\* updateUsers are emitted to the room of the session.
C18_SetStatus ==
    [][\A c \in Conns :
          ( HandlerStep("setStatus") /\ last'.id = c )
          => IF c \notin DOMAIN users \/ last'.arg.status \notin Statuses
             THEN UNCHANGED Registries /\ out' = << >>
             ELSE /\ c \in DOMAIN users'
                  /\ users'[c].status = last'.arg.status
                  /\ \E i \in EmitsOf(out', "userStatusChanged") :
                        /\ out'[i].addr = users[c].room
                        /\ out'[i].data = [username |-> users[c].username,
                                           status |-> last'.arg.status]
                  /\ \E i \in EmitsOf(out', "updateUsers") :
                        out'[i].addr = users[c].room
      ]_vars

\* C19: a join that carries a callback invokes it exactly once: with success
\* true, the room and the session when the handler has created the session
\* of the payload, and with success false and an error when it has created
\* none (the socket's session is what it was before).
C19_JoinAcknowledged ==
    [][\A c \in Conns :
          ( HandlerStep("join") /\ last'.id = c /\ last'.arg.cb )
          => /\ Len(acks') = 1
             /\ IF acks'[1].success
                THEN /\ c \in DOMAIN users'
                     /\ users'[c].username = last'.arg.username
                     /\ users'[c].room = last'.arg.room
                     /\ acks'[1].user = users'[c]
                     /\ last'.arg.room \in CatalogRooms
                     /\ acks'[1].room.userCount =
                           rooms'[last'.arg.room].userCount
                ELSE /\ acks'[1].error # ""
                     /\ (c \in DOMAIN users') = (c \in DOMAIN users)
                     /\ c \in DOMAIN users => users'[c] = users[c]
      ]_vars

\* C20: a sendMessage with a non-empty message from a socket with a session
\* emits exactly one message, addressed to the room of the session, carrying
\* the session's display name and the message; without a session or with an
\* empty message nothing is emitted; the registries never change.
C20_SendMessage ==
    [][\A c \in Conns :
          ( HandlerStep("sendMessage") /\ last'.id = c )
          => /\ UNCHANGED Registries
             /\ IF c \in DOMAIN users /\ last'.arg.message # ""
                THEN /\ Len(out') = 1
                     /\ out'[1].ev = "message"
                     /\ out'[1].addr = users[c].room
                     /\ out'[1].data.user = users[c].username
                     /\ out'[1].data.text = last'.arg.message
                ELSE out' = << >>
      ]_vars

\* C20 witness: a message of a member of a room with two members has been
\* delivered to both.
C20_Witness ==
    /\ last.op = "sendMessage"
    /\ last.arg.message = "hi"
    /\ Len(out) = 1
    /\ Cardinality(out[1].to) = 2
    /\ last.id \in out[1].to
    /\ out[1].to = Members(out[1].addr)

\* C21: in every state the display name stored in each voice record and in
\* each video record is the display name of the session of the socket that
\* owns the record.
C21_CallRecordNameIsSessionName ==
    /\ \A i \in DOMAIN voiceParticipants :
          LET p == voiceParticipants[i] IN
          p.id \in DOMAIN users => p.username = users[p.id].username
    /\ \A i \in DOMAIN videoParticipants :
          LET p == videoParticipants[i] IN
          p.id \in DOMAIN users => p.username = users[p.id].username

\* C22: in every state every socket id that has a voice record or a video
\* record has a session.
C22_CallRecordOwnerHasSession ==
    Keys(voiceParticipants) \cup Keys(videoParticipants) \subseteq DOMAIN users

\* C22 witness: a disconnect has just removed a session together with its
\* voice record and its video record.
C22_Witness ==
    /\ last.op = "disconnect"
    /\ last.id \notin DOMAIN users
    /\ \E i \in EmitsOf(out, "voiceUserLeft") : out[i].data = [id |-> last.id]
    /\ \E i \in EmitsOf(out, "videoUserLeft") : out[i].data = [id |-> last.id]
    /\ last.id \notin Keys(voiceParticipants) \cup Keys(videoParticipants)

\* The rooms a call record can be scoped to.
CallRooms == CatalogRooms \cup InheritedKeys

\* The record of c in the registry is scoped to room r.
ScopedTo(registry, c, r) ==
    c \in Keys(registry) /\ Get(registry, c).room = r

\* C23: whenever a voice (video) record of socket c scoped to room r stops
\* existing or stops being scoped to r, the same handler emits a
\* voiceUserLeft (videoUserLeft) for c addressed to r.
C23_CallExitAnnounced ==
    [][\A c \in Conns : \A r \in CallRooms :
          /\ ( ScopedTo(voiceParticipants, c, r)
               /\ ~ScopedTo(voiceParticipants', c, r) )
             => \E i \in EmitsOf(out', "voiceUserLeft") :
                   out'[i].addr = r /\ out'[i].data = [id |-> c]
          /\ ( ScopedTo(videoParticipants, c, r)
               /\ ~ScopedTo(videoParticipants', c, r) )
             => \E i \in EmitsOf(out', "videoUserLeft") :
                   out'[i].addr = r /\ out'[i].data = [id |-> c]
      ]_vars

\* C24: in every state every session has a non-empty display name.
C24_SessionNameNonEmpty ==
    \A c \in DOMAIN users : users[c].username # ""

\* C25: whether a signaling event is forwarded, and what is forwarded, is
\* decided by the target alone: when the lookup of the target in the
\* registry of the event's call type succeeds, exactly one event of the same
\* name, carrying {from, payload}, is sent to the sockets in the socket.io
\* room named by the target, and otherwise nothing is emitted, whether or not
\* the sender has a session, holds a call record, or is in the target's room
\* or call.
C25_ForwardIgnoresSender ==
    [][\A op \in SignalOps :
          HandlerStep(op) =>
             LET t == last'.arg.target
                 registry == IF op \in VoiceSignalOps THEN voiceParticipants
                             ELSE videoParticipants
                 found == t \in Keys(registry) \/ t \in InheritedKeys
             IN  out' = IF found
                        THEN << [ev |-> op, addr |-> t,
                                 to |-> {x \in Conns : t \in socketRooms[x]},
                                 data |-> SignalData(op, last'.id,
                                                     last'.arg.payload)] >>
                        ELSE << >>
      ]_vars

\* C25 witness: a video offer from a socket with no session has been
\* delivered to its target, which holds a video record.
C25_Witness ==
    /\ last.op = "videoOffer"
    /\ last.id \notin DOMAIN users
    /\ last.arg.target \in Keys(videoParticipants)
    /\ Len(out) = 1
    /\ out[1].to = {last.arg.target}
    /\ out[1].data.from = last.id

====
